---- MODULE Spec2Model ----
(***************************************************************************)
(* Model of the Scribe jQuery Numeric plugin                               *)
(* (src/src/jquery-constraint-numeric.js): the configuration resolver      *)
(* (mergeConfiguration), change detection (hasElementValueChanged), the    *)
(* event binding and the validation handlers of one Numeric instance       *)
(* bound to one text input.                                                *)
(*                                                                         *)
(* JavaScript values are tagged records; strings are sequences of          *)
(* one-character strings so that length, ToNumber and parseInt are         *)
(* computed from the characters.                                           *)
(***************************************************************************)
EXTENDS Integers, Sequences, FiniteSets

\* ------------------------------------------------------------------------
\* Bounds of the model
\* ------------------------------------------------------------------------

\* integers 0..MaxInt are offered as numeric decimalPlaces values
MaxInt == 3

\* functions Fn(1)..Fn(MaxFn) are offered as callback values
MaxFn == 2

\* ------------------------------------------------------------------------
\* JavaScript values
\* ------------------------------------------------------------------------

Undef == [t |-> "undefined"]

Null == [t |-> "null"]

Obj == [t |-> "object"]

Bool(b) == [t |-> "boolean", b |-> b]

True == Bool(TRUE)

False == Bool(FALSE)

Str(cs) == [t |-> "string", chars |-> cs]

Fn(i) == [t |-> "function", id |-> i]

\* a finite number is (-1)^neg * m / 10^s, with s minimal; NaN is separate
NumRaw(neg, m, s) == [t |-> "number", nan |-> FALSE, neg |-> neg, m |-> m, s |-> s]

NaN == [t |-> "number", nan |-> TRUE, neg |-> FALSE, m |-> 0, s |-> 0]

RECURSIVE Normalize(_, _, _)
Normalize(neg, m, s) ==
    IF s > 0 /\ m % 10 = 0 THEN Normalize(neg, m \div 10, s - 1)
    ELSE NumRaw(neg, m, s)

IntNum(i) == IF i < 0 THEN NumRaw(TRUE, -i, 0) ELSE NumRaw(FALSE, i, 0)

\* the typeof operator; typeof null is "object"
typeof(v) == IF v.t = "null" THEN "object" ELSE v.t

\* the === operator: NaN equals nothing, +0 equals -0, objects by identity
StrictEq(a, b) ==
    IF a.t # b.t THEN FALSE
    ELSE IF a.t = "number"
         THEN /\ ~a.nan
              /\ ~b.nan
              /\ a.m = b.m
              /\ a.s = b.s
              /\ (a.m = 0 \/ a.neg = b.neg)
         ELSE a = b

\* ------------------------------------------------------------------------
\* Characters and numeric conversion
\* ------------------------------------------------------------------------

DigitChars == <<"0", "1", "2", "3", "4", "5", "6", "7", "8", "9">>

IsDigit(c) == \E i \in 1..10 : DigitChars[i] = c

DigitVal(c) == (CHOOSE i \in 1..10 : DigitChars[i] = c) - 1

\* WhiteSpace and LineTerminator of the language: tab, line feed, form feed,
\* carriage return and blank, then, each denoted by its code point, the
\* vertical tab, the no-break space, the byte order mark, the line and
\* paragraph separators and the other characters of category Zs
WhiteSpaceChars ==
    {"\t", "\n", "\f", "\r", " ", "U+000B", "U+00A0", "U+FEFF", "U+2028", "U+2029",
     "U+1680", "U+2000", "U+2001", "U+2002", "U+2003", "U+2004", "U+2005", "U+2006",
     "U+2007", "U+2008", "U+2009", "U+200A", "U+202F", "U+205F", "U+3000"}

IsWS(c) == c \in WhiteSpaceChars

RECURSIVE TrimLeft(_)
TrimLeft(cs) ==
    IF cs # <<>> /\ IsWS(Head(cs)) THEN TrimLeft(Tail(cs)) ELSE cs

RECURSIVE TrimRight(_)
TrimRight(cs) ==
    IF cs # <<>> /\ IsWS(cs[Len(cs)]) THEN TrimRight(SubSeq(cs, 1, Len(cs) - 1))
    ELSE cs

\* length of the longest prefix of digits
RECURSIVE DigitPrefixLen(_)
DigitPrefixLen(cs) ==
    IF cs # <<>> /\ IsDigit(Head(cs)) THEN 1 + DigitPrefixLen(Tail(cs)) ELSE 0

\* value of a sequence of digits, acc being the value read so far
RECURSIVE DigitsValue(_, _)
DigitsValue(cs, acc) ==
    IF cs = <<>> THEN acc
    ELSE DigitsValue(Tail(cs), acc * 10 + DigitVal(Head(cs)))

Drop(cs, n) == SubSeq(cs, n + 1, Len(cs))

\* the digits ip before and frac after the "." of a literal
ParseFraction(neg, ip, frac) ==
    IF DigitPrefixLen(frac) = Len(frac) /\ Len(ip) + Len(frac) > 0
    THEN Normalize(neg, DigitsValue(ip \o frac, 0), Len(frac))
    ELSE NaN

\* an unsigned literal whose longest prefix of digits has length ilen
ParseUnsigned(neg, body, ilen) ==
    IF ilen = Len(body)
    THEN IF ilen > 0 THEN NumRaw(neg, DigitsValue(body, 0), 0) ELSE NaN
    ELSE IF body[ilen + 1] = "."
         THEN ParseFraction(neg, SubSeq(body, 1, ilen), Drop(body, ilen + 1))
         ELSE NaN

\* a blank-trimmed literal: empty is +0, else [+-]? (D+ | D+ "." D* | "." D+)
ParseTrimmed(t) ==
    IF t = <<>> THEN IntNum(0)
    ELSE IF Head(t) \in {"-", "+"}
         THEN ParseUnsigned(Head(t) = "-", Tail(t), DigitPrefixLen(Tail(t)))
         ELSE ParseUnsigned(FALSE, t, DigitPrefixLen(t))

\* StringToNumber for strings of digits, sign, ".", blanks and other
\* characters that start no numeric literal (no exponent, radix prefix or
\* Infinity)
StringToNumber(chars) == ParseTrimmed(TrimRight(TrimLeft(chars)))

\* decimal digits of a natural number
RECURSIVE NatToChars(_)
NatToChars(n) ==
    IF n < 10 THEN <<DigitChars[n + 1]>>
    ELSE NatToChars(n \div 10) \o <<DigitChars[(n % 10) + 1]>>

RECURSIVE Pow10(_)
Pow10(k) == IF k = 0 THEN 1 ELSE 10 * Pow10(k - 1)

\* the digits of m with a "." before the last s of them
DecimalChars(m, s) ==
    IF s = 0 THEN NatToChars(m)
    ELSE NatToChars(m \div Pow10(s)) \o <<".">> \o Tail(NatToChars(Pow10(s) + (m % Pow10(s))))

\* Number::toString for NaN and for finite numbers in plain decimal notation
NumberToString(n) ==
    IF n.nan THEN <<"N", "a", "N">>
    ELSE IF n.m = 0 THEN <<"0">>
    ELSE IF n.neg THEN <<"-">> \o DecimalChars(n.m, n.s)
    ELSE DecimalChars(n.m, n.s)

\* the ToString abstract operation
ToString(v) ==
    CASE v.t = "string"    -> v.chars
      [] v.t = "number"    -> NumberToString(v)
      [] v.t = "boolean"   -> IF v.b THEN <<"t", "r", "u", "e">>
                              ELSE <<"f", "a", "l", "s", "e">>
      [] v.t = "undefined" -> <<"u", "n", "d", "e", "f", "i", "n", "e", "d">>
      [] v.t = "null"      -> <<"n", "u", "l", "l">>
      [] v.t = "object"    -> <<"[", "o", "b", "j", "e", "c", "t", " ",
                                "O", "b", "j", "e", "c", "t", "]">>
      [] v.t = "function"  -> <<"f", "u", "n", "c", "t", "i", "o", "n">>

\* the unary + operator (ToNumber)
ToNumber(v) ==
    CASE v.t = "number"    -> v
      [] v.t = "string"    -> StringToNumber(v.chars)
      [] v.t = "boolean"   -> IF v.b THEN IntNum(1) ELSE IntNum(0)
      [] v.t = "null"      -> IntNum(0)
      [] v.t = "undefined" -> NaN
      [] v.t = "object"    -> NaN
      [] v.t = "function"  -> NaN

\* the longest prefix of digits of body, NaN when it is empty
ParseIntDigits(neg, body, n) ==
    IF n = 0 THEN NaN
    ELSE NumRaw(neg, DigitsValue(SubSeq(body, 1, n), 0), 0)

\* an optional sign, then the digits
ParseIntSigned(s) ==
    IF s # <<>> /\ Head(s) \in {"-", "+"}
    THEN ParseIntDigits(Head(s) = "-", Tail(s), DigitPrefixLen(Tail(s)))
    ELSE ParseIntDigits(FALSE, s, DigitPrefixLen(s))

\* parseInt(v, 10): ToString, skip leading blanks, optional sign, then the
\* longest prefix of digits
parseInt(v) == ParseIntSigned(TrimLeft(ToString(v)))

\* ------------------------------------------------------------------------
\* Configuration objects and the resolver
\* ------------------------------------------------------------------------

Fields == {"negative", "decimal", "decimalPlaces", "delegateRemoval",
           "delegateRealtime", "callbackInvalidEntry", "callbackValidEntry"}

\* the {} literal seen through the configuration fields: every read is undefined
EmptyObject == [f \in Fields |-> Undef]

\* Numeric.prototype.defaults
defaults ==
    [negative             |-> True,
     decimal              |-> True,
     decimalPlaces        |-> Undef,
     delegateRemoval      |-> True,
     delegateRealtime     |-> True,
     callbackInvalidEntry |-> Undef,
     callbackValidEntry   |-> Undef]

\* one source of $.extend(target, src): a null or undefined source is
\* skipped, and so is every property whose value is undefined
extend(target, src) ==
    IF src \in {Undef, Null} THEN target
    ELSE [f \in Fields |-> IF src[f] # Undef THEN src[f] ELSE target[f]]

\* $.extend({}, this.defaults, this.options, this.metadata)
extendAll(d, o, m) == extend(extend(extend(EmptyObject, d), o), m)

\* resolveNegative resetting only a missing value, not every non-boolean
resolveNegative_missingOnly(c, d) ==
    IF c.negative \in {Undef, Null}
    THEN [c EXCEPT !.negative = d.negative]
    ELSE c

resolveNegative(c, d) ==
    IF typeof(c.negative) # "boolean"
    THEN [c EXCEPT !.negative = d.negative]
    ELSE c

\* resolveDecimal without the test of the string's length
resolveDecimal_anyLength(c, d) ==
    LET c1 == IF StrictEq(c.decimal, False)
              THEN [c EXCEPT !.decimal = d.decimal]
              ELSE c
    IN  IF typeof(c1.decimal) # "string"
        THEN [c1 EXCEPT !.decimal = Str(<<".">>)]
        ELSE c1

resolveDecimal(c, d) ==
    LET c1 == IF \/ StrictEq(c.decimal, False)
                 \/ (typeof(c.decimal) = "string" /\ Len(c.decimal.chars) # 1)
              THEN [c EXCEPT !.decimal = d.decimal]
              ELSE c
    IN  IF typeof(c1.decimal) # "string"
        THEN [c1 EXCEPT !.decimal = Str(<<".">>)]
        ELSE c1

\* resolveDecimalPlaces keeping an accepted value as it was given, without
\* the conversion to a number
resolveDecimalPlaces_uncoerced(c, d) ==
    [c EXCEPT !.decimalPlaces =
        IF /\ ~StrictEq(c.decimalPlaces, d.decimalPlaces)
           /\ ~StrictEq(ToNumber(c.decimalPlaces), parseInt(c.decimalPlaces))
        THEN d.decimalPlaces
        ELSE c.decimalPlaces]

resolveDecimalPlaces(c, d) ==
    [c EXCEPT !.decimalPlaces =
        IF /\ ~StrictEq(c.decimalPlaces, d.decimalPlaces)
           /\ ~StrictEq(ToNumber(c.decimalPlaces), parseInt(c.decimalPlaces))
        THEN d.decimalPlaces
        ELSE ToNumber(c.decimalPlaces)]

resolveDelegateRemoval(c, d) ==
    IF typeof(c.delegateRemoval) # "boolean"
    THEN [c EXCEPT !.delegateRemoval = d.delegateRemoval]
    ELSE c

resolveDelegateRealtime(c, d) ==
    IF typeof(c.delegateRealtime) # "boolean"
    THEN [c EXCEPT !.delegateRealtime = d.delegateRealtime]
    ELSE c

resolveCallbackInvalidEntry(c) ==
    IF typeof(c.callbackInvalidEntry) # "function"
    THEN [c EXCEPT !.callbackInvalidEntry = Undef]
    ELSE c

resolveCallbackValidEntry(c) ==
    IF typeof(c.callbackValidEntry) # "function"
    THEN [c EXCEPT !.callbackValidEntry = Undef]
    ELSE c

\* the value of this.config after mergeConfiguration()
mergeConfiguration(d, o, m) ==
    resolveCallbackValidEntry(
     resolveCallbackInvalidEntry(
      resolveDelegateRealtime(
       resolveDelegateRemoval(
        resolveDecimalPlaces(
         resolveDecimal(
          resolveNegative(extendAll(d, o, m), d), d), d), d), d)))

\* ------------------------------------------------------------------------
\* Names the code can resolve
\* ------------------------------------------------------------------------

\* the properties of Numeric.prototype, which every instance inherits
PrototypeMembers ==
    {"defaults", "eventLookupTable", "init", "mergeConfiguration",
     "bindEventReceivers", "hasElementValueChanged", "validate",
     "validateLive", "validateLazy", "validationResult", "buildEventObject"}

\* this.<name> read on an instance
Member(name) ==
    IF name \in {"defaults", "eventLookupTable"} THEN Obj
    ELSE IF name \in PrototypeMembers THEN [t |-> "function", method |-> name]
    ELSE Undef

\* identifiers bound by the enclosing function(window, $, undefined)
ClosureScope == {"window", "$", "undefined", "Numeric"}

\* parameters and locals of validationResult
validationResultScope ==
    ClosureScope \cup {"resultStatus", "customMessage", "typeContext", "e"}

\* parameters and locals of buildEventObject
buildEventObjectScope ==
    ClosureScope \cup {"resultStatus", "customMessage", "typeContext", "e",
                       "eventReturnCode", "eventMessage", "eventType",
                       "eventContext"}

\* a string literal of the source, kept whole
Text(s) == [t |-> "string", text |-> s]

\* ToBoolean of the values that reach the || operators
Truthy(v) == v \notin {Undef, Null, False, Str(<<>>), IntNum(0), NaN}

\* Numeric.prototype.eventLookupTable, indexed by the return code + 1
eventLookupTable ==
    [message   |-> <<Text("An invalid character was entered within the text field."),
                     Text("The text field contains valid characters.")>>,
     eventType |-> <<Text("scr:numeric.entry_invalid"),
                     Text("scr:numeric.entry_valid")>>]

\* ------------------------------------------------------------------------
\* Outcome of a call: how it ended and what it did on the way
\*   threw     "none" or the name of the error raised
\*   ret       the value returned ("none" when it threw)
\*   cycles    the result statuses validationResult was entered with
\*   published the events triggered on the element
\*   invoked   the callbacks that were called
\*   built     the event objects buildEventObject returned
\* ------------------------------------------------------------------------

Returns(r) ==
    [threw |-> "none", ret |-> r, cycles |-> <<>>, published |-> <<>>, invoked |-> <<>>,
     built |-> <<>>]

Throws(err) ==
    [threw |-> err, ret |-> "none", cycles |-> <<>>, published |-> <<>>, invoked |-> <<>>,
     built |-> <<>>]

\* outcome a followed by outcome b, which decides how the call ends
AndThen(a, b) ==
    [threw     |-> b.threw,
     ret       |-> b.ret,
     cycles    |-> a.cycles \o b.cycles,
     published |-> a.published \o b.published,
     invoked   |-> a.invoked \o b.invoked,
     built     |-> a.built \o b.built]

\* ------------------------------------------------------------------------
\* Change detection and notification
\* ------------------------------------------------------------------------

\* hasElementValueChanged without the update of the last value on a change
hasElementValueChanged_stale(lastValue, val) ==
    IF StrictEq(lastValue, Undef)
    THEN [ret |-> TRUE, elementLastValue |-> val]
    ELSE IF StrictEq(lastValue, val)
         THEN [ret |-> FALSE, elementLastValue |-> lastValue]
         ELSE [ret |-> TRUE, elementLastValue |-> lastValue]

\* hasElementValueChanged(): lastValue is this.elementLastValue, val is
\* this.$element.val(); gives the returned boolean and the new last value
hasElementValueChanged(lastValue, val) ==
    IF StrictEq(lastValue, Undef)
    THEN [ret |-> TRUE, elementLastValue |-> val]
    ELSE IF StrictEq(lastValue, val)
         THEN [ret |-> FALSE, elementLastValue |-> lastValue]
         ELSE [ret |-> TRUE, elementLastValue |-> val]

\* the event object built at lines 394-408 for return code eventReturnCode;
\* type stands for the string eventType + "." + eventContext, and message
\* is the value of the identifier message that line 380 reads, which is not
\* the parameter customMessage
eventObject(eventReturnCode, message, typeContext, lastValue) ==
    [type    |-> [base   |-> eventLookupTable.eventType[eventReturnCode.m + 1],
                  suffix |-> IF Truthy(typeContext) THEN typeContext ELSE Text("standard")],
     name    |-> eventLookupTable.eventType[eventReturnCode.m + 1],
     context |-> IF Truthy(typeContext) THEN typeContext ELSE Text("standard"),
     code    |-> eventReturnCode,
     message |-> IF Truthy(message) THEN message
                 ELSE eventLookupTable.message[eventReturnCode.m + 1],
     value   |-> lastValue]

\* buildEventObject(resultStatus, customMessage, typeContext): the event, or
\* the error raised on the way. The identifier message and the property
\* resultEventInfoLookup / resultInfoLookup are looked up as the code names
\* them; customMessage is read nowhere, and a binding of message that
\* nothing has assigned holds undefined.
buildEventObject(resultStatus, customMessage, typeContext, lastValue) ==
    IF "message" \notin buildEventObjectScope
    THEN [threw |-> "ReferenceError", e |-> Undef]
    ELSE IF \/ Member("resultEventInfoLookup") = Undef
            \/ Member("resultInfoLookup") = Undef
    THEN [threw |-> "TypeError", e |-> Undef]
    ELSE [threw |-> "none",
          e     |-> eventObject(ToNumber(Bool(resultStatus)), Undef,
                                typeContext, lastValue)]

\* a call of validationResult was entered with resultStatus
Entered(resultStatus) == [Returns("none") EXCEPT !.cycles = <<resultStatus>>]

\* lines 340-349, once the event built is available
triggerAndReturn(resultStatus, built) ==
    IF built.threw # "none"
    THEN AndThen(Entered(resultStatus), Throws(built.threw))
    \* this.$element.trigger(e), then the read of the identifier result
    ELSE IF "result" \notin validationResultScope
    THEN AndThen([Entered(resultStatus) EXCEPT !.published = <<built.e>>],
                 Throws("ReferenceError"))
    \* $.proxy(...) builds a bound function and returns it uncalled
    ELSE AndThen([Entered(resultStatus) EXCEPT !.published = <<built.e>>],
                 Returns("function"))

\* validationResult(resultStatus, customMessage, typeContext) on an instance
\* with configuration cfg
validationResult(resultStatus, customMessage, typeContext, cfg, lastValue) ==
    \* var e = this.buildEvent(...)
    IF typeof(Member("buildEvent")) # "function"
    THEN AndThen(Entered(resultStatus), Throws("TypeError"))
    ELSE triggerAndReturn(resultStatus,
            buildEventObject(resultStatus, customMessage, typeContext, lastValue))

\* the guard `this.hasElementValueChanged === false` of the three validators
unchangedGuard == StrictEq(Member("hasElementValueChanged"), False)

\* validateLive(e)
validateLive(cfg, lastValue) ==
    IF unchangedGuard THEN Returns("this")
    ELSE validationResult(FALSE, Text("Character % not allowed."), Undef, cfg, lastValue)

\* validateLazy(e)
validateLazy(cfg, lastValue) ==
    IF unchangedGuard THEN Returns("this")
    ELSE validationResult(TRUE, Undef, Undef, cfg, lastValue)

\* the end of validate(): lazy is the outcome of the chained calls
returnThis(lazy) ==
    IF lazy.threw # "none" THEN lazy ELSE AndThen(lazy, Returns("this"))

\* this.validateLive().validateLazy(): live is the outcome of validateLive()
chainValidateLazy(live, cfg, lastValue) ==
    IF live.threw # "none" THEN live
    \* only the instance has a validateLazy method
    ELSE IF live.ret # "this" THEN AndThen(live, Throws("TypeError"))
    ELSE returnThis(AndThen(live, validateLazy(cfg, lastValue)))

\* validate without the test of this.element
validate_noElementGuard(elem, cfg, lastValue) ==
    IF unchangedGuard THEN Returns("this")
    ELSE chainValidateLazy(validateLive(cfg, lastValue), cfg, lastValue)

\* validate() on a receiver whose element property is elem
validate(elem, cfg, lastValue) ==
    IF StrictEq(elem, Undef) THEN Returns("this")
    ELSE IF unchangedGuard THEN Returns("this")
    ELSE chainValidateLazy(validateLive(cfg, lastValue), cfg, lastValue)

\* the handler bindEventReceivers() attaches to each event type
LazyEvents == {"change", "blur"}

LiveEvents == {"keydown", "keypress", "keyup"}

EventTypes == LazyEvents \cup LiveEvents

\* at most MaxHandlers handlers are bound to one event type
MaxHandlers == 2

\* this.$element.on(types, handler): the handler joins, after those already
\* bound, the handlers b of every type named
on(b, types, handler) ==
    [ev \in EventTypes |-> IF ev \in types THEN Append(b[ev], handler) ELSE b[ev]]

\* bindEventReceivers without the early return on delegateRealtime
bindEventReceivers_always(b, cfg) ==
    [threw |-> "none",
     bound |-> on(on(b, LazyEvents, "validateLazy"), LiveEvents, "validateLive")]

\* bindEventReceivers() after its call of hasElementValueChanged(), on an
\* element with the handlers b: the handlers afterwards, and the error
\* raised by the read of this.config.delegateRealtime without a this.config
bindEventReceivers(b, cfg) ==
    IF cfg = Undef
    THEN [threw |-> "TypeError", bound |-> on(b, LazyEvents, "validateLazy")]
    ELSE IF StrictEq(cfg.delegateRealtime, False)
    THEN [threw |-> "none", bound |-> on(b, LazyEvents, "validateLazy")]
    ELSE [threw |-> "none",
          bound |-> on(on(b, LazyEvents, "validateLazy"), LiveEvents, "validateLive")]

\* the handler an event with the handlers hs runs first, "none" without any
handlerOf(hs) == IF hs = <<>> THEN "none" ELSE Head(hs)

\* the dispatch of an event to its handlers hs in the order they were
\* bound, before being the outcome so far; an error raised by a handler ends
\* the dispatch
RECURSIVE runHandlers(_, _, _, _)
runHandlers(hs, cfg, lastValue, before) ==
    IF hs = <<>> \/ before.threw # "none" THEN before
    ELSE runHandlers(Tail(hs), cfg, lastValue,
                     AndThen(before, IF Head(hs) = "validateLazy"
                                     THEN validateLazy(cfg, lastValue)
                                     ELSE validateLive(cfg, lastValue)))

\* ------------------------------------------------------------------------
\* Inputs offered to the model
\* ------------------------------------------------------------------------

\* the text input's possible contents: "", "-12.50", "12.5.6"
FieldValues ==
    {Str(<<>>), Str(<<"-", "1", "2", ".", "5", "0">>),
     Str(<<"1", "2", ".", "5", ".", "6">>)}

BooleanOptionValues ==
    {Undef, Null, True, False, IntNum(0), IntNum(1), Str(<<>>),
     Str(<<"t", "r", "u", "e">>), Obj, Fn(1)}

DecimalValues ==
    {Undef, Null, True, False, IntNum(5), Obj, Fn(1), Str(<<>>), Str(<<".">>),
     Str(<<"#">>), Str(<<",">>), Str(<<"a", "b">>)}

\* "3", "abc", "2.5", "", "-2", "3.0", " 3", "3a", ".", a tab then "3",
\* "3" then a line feed, a no-break space then "3"
DecimalPlacesStrings ==
    {<<"3">>, <<"a", "b", "c">>, <<"2", ".", "5">>, <<>>, <<"-", "2">>,
     <<"3", ".", "0">>, <<" ", "3">>, <<"3", "a">>, <<".">>, <<"\t", "3">>,
     <<"3", "\n">>, <<"U+00A0", "3">>}

DecimalPlacesValues ==
    {Undef, Null, True, False, Obj, Fn(1), NaN, NumRaw(FALSE, 25, 1), IntNum(-2)}
        \cup {IntNum(i) : i \in 0..MaxInt}
        \cup {Str(cs) : cs \in DecimalPlacesStrings}

CallbackValues ==
    {Undef, Null, True, Obj, Str(<<"c", "b">>)} \cup {Fn(i) : i \in 1..MaxFn}

\* custom messages and context labels offered to buildEventObject
MessageArguments == {Undef, Text("Custom message.")}

ContextArguments == {Undef, Text("context")}

ValuesOf(f) ==
    CASE f \in {"negative", "delegateRemoval", "delegateRealtime"} -> BooleanOptionValues
      [] f = "decimal" -> DecimalValues
      [] f = "decimalPlaces" -> DecimalPlacesValues
      [] f \in {"callbackInvalidEntry", "callbackValidEntry"} -> CallbackValues

\* option objects that set the fields the dispatcher reads
BaseOptions ==
    {[EmptyObject EXCEPT !.delegateRealtime = False],
     [EmptyObject EXCEPT !.callbackValidEntry = Fn(1), !.callbackInvalidEntry = Fn(MaxFn)],
     [EmptyObject EXCEPT !.delegateRealtime = False, !.callbackValidEntry = Fn(1),
                         !.callbackInvalidEntry = Fn(MaxFn)]}

\* ------------------------------------------------------------------------
\* Objects shared by several instances
\* ------------------------------------------------------------------------

\* input elements 1..MaxElements of the page
MaxElements == 2

\* at most MaxAttach instances are created
MaxAttach == 3

Elements == 1..MaxElements

\* references to the objects of the heap
Ref(kind, n) == [kind |-> kind, n |-> n]

\* Numeric.prototype.defaults, the one object every instance inherits
DefaultsRef == Ref("defaults", 0)

\* the options argument of $.fn.numeric, passed on to every instance
OptionsRef == Ref("options", 0)

\* the data-numeric-options object of element e
DataRef(e) == Ref("data", e)

\* the object created by the {} literal of the i-th mergeConfiguration()
ConfigRef(i) == Ref("config", i)

\* the input element e, this.element of the instances attached to it: its
\* content and the handlers bound to each of its event types
ElementRef(e) == Ref("element", e)

Refs ==
    {DefaultsRef, OptionsRef} \cup {DataRef(e) : e \in Elements}
        \cup {ElementRef(e) : e \in Elements}
        \cup {ConfigRef(i) : i \in 1..MaxAttach}

\* the heap when the script is loaded: only the defaults exist
FactoryHeap == [r \in {DefaultsRef} |-> defaults]

\* $.extend with the defaults object as its target, which it returns
extendOn_intoDefaults(h, fresh, o, m) ==
    [heap   |-> [h EXCEPT ![DefaultsRef] = extend(extend(h[DefaultsRef], h[o]), h[m])],
     config |-> DefaultsRef]

\* this.config = $.extend({}, this.defaults, this.options, this.metadata):
\* $.extend writes its first argument, the new object, and returns it
extendOn(h, fresh, o, m) ==
    [heap   |-> [h EXCEPT ![fresh] = extendAll(h[DefaultsRef], h[o], h[m])],
     config |-> fresh]

\* the statements of mergeConfiguration, each writing the object this.config
\* refers to and reading this.defaults as it is when the statement runs
negativeOn(s) ==
    [s EXCEPT !.heap[s.config] = resolveNegative(s.heap[s.config], s.heap[DefaultsRef])]

decimalOn(s) ==
    [s EXCEPT !.heap[s.config] = resolveDecimal(s.heap[s.config], s.heap[DefaultsRef])]

decimalPlacesOn(s) ==
    [s EXCEPT !.heap[s.config] = resolveDecimalPlaces(s.heap[s.config], s.heap[DefaultsRef])]

delegateRemovalOn(s) ==
    [s EXCEPT !.heap[s.config] = resolveDelegateRemoval(s.heap[s.config], s.heap[DefaultsRef])]

delegateRealtimeOn(s) ==
    [s EXCEPT !.heap[s.config] = resolveDelegateRealtime(s.heap[s.config], s.heap[DefaultsRef])]

callbackInvalidEntryOn(s) ==
    [s EXCEPT !.heap[s.config] = resolveCallbackInvalidEntry(s.heap[s.config])]

callbackValidEntryOn(s) ==
    [s EXCEPT !.heap[s.config] = resolveCallbackValidEntry(s.heap[s.config])]

\* mergeConfiguration() on the heap h, for an instance whose options and
\* metadata are the objects o and m; fresh is the object {} creates
mergeConfigurationOn(h, fresh, o, m) ==
    callbackValidEntryOn(
     callbackInvalidEntryOn(
      delegateRealtimeOn(
       delegateRemovalOn(
        decimalPlacesOn(
         decimalOn(
          negativeOn(extendOn(h, fresh, o, m))))))))

\* options objects passed to $.fn.numeric; undefined when it has no argument
SharedOptions ==
    {Undef,
     [EmptyObject EXCEPT !.decimal = Str(<<",">>), !.decimalPlaces = IntNum(MaxInt)],
     [EmptyObject EXCEPT !.negative = False, !.callbackValidEntry = Fn(MaxFn)]}

\* data-numeric-options of an element; undefined without the attribute
ElementAttributes ==
    {Undef,
     [EmptyObject EXCEPT !.decimalPlaces = Str(<<"3">>)],
     [EmptyObject EXCEPT !.negative = True, !.decimal = Str(<<"#">>)]}

\* the contents of the inputs of the page: "", "-12.50"
InputValues == {Str(<<>>), Str(<<"-", "1", "2", ".", "5", "0">>)}

\* values a script gives Numeric.defaults.decimalPlaces before attaching
DefaultPlaces == {False, IntNum(MaxInt)}

\* ------------------------------------------------------------------------
\* State
\* ------------------------------------------------------------------------

VARIABLES
    element,           \* this.element: undefined until the constructor ran
    options,           \* this.options
    metadata,          \* this.metadata, the element's data-numeric-options
    config,            \* this.config: undefined until init()
    elementLastValue,  \* this.elementLastValue
    bound,             \* handlers bound to each event type of the element
    fieldValue,        \* the input's current value, this.$element.val()
    last,              \* the last operation and its outcome
    heap,              \* the objects several instances can reach, by reference
    instances          \* the instances $.fn.numeric created, in order of creation

vars == <<element, options, metadata, config, elementLastValue, bound, fieldValue, last,
          heap, instances>>

\* the input element the instance is attached to
InputElement == [t |-> "object", node |-> "input"]

Unbound == [ev \in EventTypes |-> <<>>]

\* the record of an operation op called with arguments args
DoneWith(op, handler, args, out) ==
    [op        |-> op,
     handler   |-> handler,
     args      |-> args,
     threw     |-> out.threw,
     ret       |-> out.ret,
     cycles    |-> out.cycles,
     published |-> out.published,
     invoked   |-> out.invoked,
     built     |-> out.built]

Done(op, handler, out) == DoneWith(op, handler, <<>>, out)

Init ==
    /\ element = Undef
    /\ options = Undef
    /\ metadata = Undef
    /\ config = Undef
    /\ elementLastValue = Undef
    /\ bound = Unbound
    /\ fieldValue \in FieldValues
    /\ last = Done("none", "none", Returns("none"))
    /\ heap = FactoryHeap
    /\ instances = <<>>

\* ------------------------------------------------------------------------
\* Operations
\* ------------------------------------------------------------------------

\* new Numeric(element, o) on an input whose data-numeric-options is m
Numeric(o, m) ==
    /\ element = Undef
    /\ element' = InputElement
    /\ options' = o
    /\ metadata' = m
    /\ last' = Done("Numeric", "none", Returns("this"))
    /\ UNCHANGED <<config, elementLastValue, bound, fieldValue, heap, instances>>

\* the constructor with no options and no attribute
NumericBare == Numeric(Undef, Undef)

\* the constructor with one field set by the caller and by the attribute
NumericWith ==
    \E f \in Fields :
        \E u \in ValuesOf(f), m \in ValuesOf(f) :
            Numeric([EmptyObject EXCEPT ![f] = u], [EmptyObject EXCEPT ![f] = m])

\* the constructor with several fields set by the caller, some overridden
\* by an attribute that gives every boolean option
NumericOptions ==
    \E b \in BaseOptions, m \in {Undef, [EmptyObject EXCEPT !.negative = False,
                                         !.delegateRemoval = False,
                                         !.delegateRealtime = True]} :
        Numeric(b, m)

\* init(): mergeConfiguration(), then bindEventReceivers(), whose first
\* statement is a call of hasElementValueChanged()
init ==
    /\ element # Undef
    /\ Len(bound["change"]) < MaxHandlers
    /\ config' = mergeConfiguration(defaults, options, metadata)
    /\ elementLastValue' = hasElementValueChanged(elementLastValue, fieldValue).elementLastValue
    /\ bound' = bindEventReceivers(bound, config').bound
    /\ last' = Done("init", "none", Returns("this"))
    /\ UNCHANGED <<element, options, metadata, fieldValue, heap, instances>>

\* instance.mergeConfiguration(), which returns nothing
CallMergeConfiguration ==
    /\ element # Undef
    /\ config' = mergeConfiguration(defaults, options, metadata)
    /\ last' = Done("mergeConfiguration", "none", Returns("undefined"))
    /\ UNCHANGED <<element, options, metadata, elementLastValue, bound, fieldValue,
                   heap, instances>>

\* the outcome of a direct call of bindEventReceivers that gave r
boundOutcome(r) == IF r.threw # "none" THEN Throws(r.threw) ELSE Returns("this")

\* instance.bindEventReceivers()
CallBindEventReceivers ==
    /\ element # Undef
    /\ Len(bound["change"]) < MaxHandlers
    /\ elementLastValue' = hasElementValueChanged(elementLastValue, fieldValue).elementLastValue
    /\ bound' = bindEventReceivers(bound, config).bound
    /\ last' = Done("bindEventReceivers", "none",
                    boundOutcome(bindEventReceivers(bound, config)))
    /\ UNCHANGED <<element, options, metadata, config, fieldValue, heap, instances>>

\* the user, or a script, changes the content of the input
Edit(v) ==
    /\ v # fieldValue
    /\ fieldValue' = v
    /\ last' = Done("edit", "none", Returns("none"))
    /\ UNCHANGED <<element, options, metadata, config, elementLastValue, bound, heap, instances>>

\* an event of type ev is dispatched on the element; it runs the handlers
\* bound to that type, if any
Dispatch(ev) ==
    /\ element # Undef
    /\ last' = Done(ev, handlerOf(bound[ev]),
                    runHandlers(bound[ev], config, elementLastValue, Returns("none")))
    /\ UNCHANGED <<element, options, metadata, config, elementLastValue, bound, fieldValue, heap, instances>>

\* validate() building the configuration anew from the defaults alone
Validate_remerge ==
    /\ element # Undef
    /\ last' = Done("validate", "validate", validate(element, config, elementLastValue))
    /\ config' = mergeConfiguration(defaults, Undef, Undef)
    /\ UNCHANGED <<element, options, metadata, elementLastValue, bound, fieldValue, heap, instances>>

\* instance.validate()
Validate ==
    /\ element # Undef
    /\ last' = Done("validate", "validate", validate(element, config, elementLastValue))
    /\ UNCHANGED <<element, options, metadata, config, elementLastValue, bound, fieldValue, heap, instances>>

\* Numeric.validate(): the receiver is the constructor, which has no element
StaticValidate ==
    /\ last' = Done("Numeric.validate", "validate", validate(Undef, Undef, Undef))
    /\ UNCHANGED <<element, options, metadata, config, elementLastValue, bound, fieldValue, heap, instances>>

\* instance.hasElementValueChanged()
CallHasElementValueChanged ==
    LET r == hasElementValueChanged(elementLastValue, fieldValue)
    IN  /\ element # Undef
        /\ elementLastValue' = r.elementLastValue
        /\ last' = Done("hasElementValueChanged", "none",
                        Returns(IF r.ret THEN "true" ELSE "false"))
        /\ UNCHANGED <<element, options, metadata, config, bound, fieldValue, heap, instances>>

\* the outcome of a direct call of buildEventObject that gave b
builtOutcome(b) ==
    IF b.threw # "none" THEN Throws(b.threw)
    ELSE [Returns("event") EXCEPT !.built = <<b.e>>]

\* instance.buildEventObject(resultStatus, customMessage, typeContext)
CallBuildEventObject(resultStatus, customMessage, typeContext) ==
    /\ element # Undef
    /\ last' = DoneWith("buildEventObject", "none",
                        <<Bool(resultStatus), customMessage, typeContext>>,
                        builtOutcome(buildEventObject(resultStatus, customMessage,
                                                      typeContext, elementLastValue)))
    /\ UNCHANGED <<element, options, metadata, config, elementLastValue, bound, fieldValue, heap, instances>>

Next ==
    \/ NumericBare
    \/ NumericOptions
    \/ init
    \/ CallMergeConfiguration
    \/ CallBindEventReceivers
    \/ \E v \in FieldValues : Edit(v)
    \/ \E ev \in EventTypes : Dispatch(ev)
    \/ Validate
    \/ StaticValidate
    \/ CallHasElementValueChanged
    \/ \E resultStatus \in BOOLEAN, customMessage \in MessageArguments,
          typeContext \in ContextArguments :
            CallBuildEventObject(resultStatus, customMessage, typeContext)

Spec == Init /\ [][Next]_vars

\* the constructor with every value of every field, and the operations that
\* resolve the configuration
NextResolver ==
    \/ NumericBare
    \/ NumericWith
    \/ init
    \/ CallMergeConfiguration

SpecResolver == Init /\ [][NextResolver]_vars

\* ------------------------------------------------------------------------
\* Several elements attached through $.fn.numeric
\* ------------------------------------------------------------------------

\* the page before any call of $.fn.numeric: the options object the script
\* will pass, the attribute and the content of each element; no instance was
\* made by hand
AttachInit ==
    /\ element = Undef
    /\ options = Undef
    /\ metadata = Undef
    /\ config = Undef
    /\ elementLastValue = Undef
    /\ bound = Unbound
    /\ fieldValue = Str(<<>>)
    /\ last = Done("none", "none", Returns("none"))
    /\ \E u \in SharedOptions, a \in [Elements -> ElementAttributes],
          w \in [Elements -> InputValues] :
          heap = [r \in Refs |-> CASE r = DefaultsRef -> defaults
                                   [] r = OptionsRef -> u
                                   [] r.kind = "data" -> a[r.n]
                                   [] r.kind = "element" -> [value    |-> w[r.n],
                                                             handlers |-> Unbound]
                                   [] OTHER -> Undef]
    /\ instances = <<>>

\* Numeric.defaults.decimalPlaces = v, by a script setting its own global
\* default before it attaches the plugin
SetDefault(v) ==
    /\ instances = <<>>
    /\ heap[DefaultsRef] = defaults
    /\ heap' = [heap EXCEPT ![DefaultsRef].decimalPlaces = v]
    /\ UNCHANGED <<element, options, metadata, config, elementLastValue, bound,
                   fieldValue, last, instances>>

\* the instance new Numeric(e, options).init() leaves behind, s being the
\* heap and the this.config that mergeConfiguration() gave
Instance(e, s) ==
    [element          |-> ElementRef(e),
     options          |-> OptionsRef,
     metadata         |-> DataRef(e),
     config           |-> s.config,
     elementLastValue |->
         hasElementValueChanged(Undef, s.heap[ElementRef(e)].value).elementLastValue]

\* the heap and the instances after init(), s being the heap and the
\* this.config that mergeConfiguration() gave: bindEventReceivers() adds its
\* handlers to those the element e carries
Attached(e, s) ==
    /\ heap' = [s.heap EXCEPT ![ElementRef(e)].handlers =
                    bindEventReceivers(@, s.heap[s.config]).bound]
    /\ instances' = Append(instances, Instance(e, s))

\* one turn of this.each(...) in $.fn.numeric(options), for the element e:
\* new Numeric(e, options).init()
Attach(e) ==
    /\ Len(instances) < MaxAttach
    /\ Attached(e, mergeConfigurationOn(heap, ConfigRef(Len(instances) + 1),
                                        OptionsRef, DataRef(e)))
    /\ UNCHANGED <<element, options, metadata, config, elementLastValue, bound,
                   fieldValue, last>>

AttachNext ==
    \/ \E v \in DefaultPlaces : SetDefault(v)
    \/ \E e \in Elements : Attach(e)

SpecAttach == AttachInit /\ [][AttachNext]_vars

\* ------------------------------------------------------------------------
\* Vocabulary of the properties
\* ------------------------------------------------------------------------

BooleanOptions == {"negative", "delegateRemoval", "delegateRealtime"}

\* the value a configuration source gives for field f, undefined when it
\* gives none
Supplied(src, f) == IF src \in {Undef, Null} THEN Undef ELSE src[f]

\* the value of field f after the three sources are combined: the
\* attribute's if it gives one, else the caller's, else the default
Merged(f) ==
    IF Supplied(metadata, f) # Undef THEN Supplied(metadata, f)
    ELSE IF Supplied(options, f) # Undef THEN Supplied(options, f)
    ELSE defaults[f]

\* the instance is as init() leaves it: the configuration is resolved, the
\* last value recorded and the handlers the configuration asks for bound
Initialised ==
    /\ config # Undef
    /\ elementLastValue # Undef
    /\ \A ev \in LazyEvents : bound[ev] # <<>>
    /\ config.delegateRealtime # False => \A ev \in LiveEvents : bound[ev] # <<>>

\* init() has run and neither the caller nor the attribute gave any field
DefaultConfiguration ==
    /\ Initialised
    /\ \A f \in Fields : Supplied(options, f) = Undef /\ Supplied(metadata, f) = Undef

\* the last operation was an event that reached a bound handler
HandledEvent(l) == l.op \in EventTypes /\ l.handler # "none"

\* cs is a well-formed number: an optional leading sign, then digits with at
\* most one "." among them, and at least one digit
WellFormedNumber(cs) ==
    LET body == IF cs # <<>> /\ Head(cs) \in {"-", "+"} THEN Tail(cs) ELSE cs
        ilen == DigitPrefixLen(body)
        rest == Drop(body, ilen)
        frac == IF rest # <<>> /\ Head(rest) = "." THEN Tail(rest) ELSE rest
    IN  /\ DigitPrefixLen(frac) = Len(frac)
        /\ ilen + Len(frac) > 0

SuccessMessage == Text("The text field contains valid characters.")

\* ------------------------------------------------------------------------
\* Properties
\* ------------------------------------------------------------------------

\* C1: on an attached, initialised instance no operation (init, an edit, a
\* dispatched change, blur or keystroke event, validate()) ends by raising
\* an exception.
C1_NoOperationThrows == Initialised => last.threw = "none"

\* C2: under the default configuration, a change or blur event on a field
\* whose value differs from the recorded one publishes a notification with
\* code 1 and the default success message when the value is a well-formed
\* number, and a notification with code 0 when it is not.
C2_LazyValidationJudgesValue ==
    (/\ DefaultConfiguration
     /\ last.op \in LazyEvents
     /\ last.handler = "validateLazy"
     /\ fieldValue # elementLastValue)
    => \E i \in DOMAIN last.published :
          IF WellFormedNumber(fieldValue.chars)
          THEN /\ last.published[i].code = IntNum(1)
               /\ last.published[i].message = SuccessMessage
          ELSE last.published[i].code = IntNum(0)

\* C3: with callbackValidEntry resolved to a function, the callback is
\* invoked once for every validation cycle that ended in success, with the
\* instance as receiver, and not at all for a cycle that ended in failure:
\* in an operation that validated a changed value, its invocations are as
\* many as the operation's success cycles.
C3_ValidCallbackOncePerSuccess ==
    (/\ Initialised
     /\ typeof(config.callbackValidEntry) = "function"
     /\ fieldValue # elementLastValue)
    => /\ Cardinality({i \in DOMAIN last.invoked :
                          /\ last.invoked[i].callback = "callbackValidEntry"
                          /\ last.invoked[i].receiver = "this"})
            = Cardinality({i \in DOMAIN last.cycles : last.cycles[i]})
       /\ \A i \in DOMAIN last.invoked :
            last.invoked[i].callback = "callbackValidEntry"
                => last.invoked[i].receiver = "this"

\* C4: a call of hasElementValueChanged() that directly follows another
\* call of it (or init(), which makes one) returns false; a call made while
\* the field's value differs from the recorded last value returns true and
\* leaves the recorded last value equal to the field's value.
C4_ChangeDetection ==
    [][last'.op = "hasElementValueChanged" =>
        /\ last.op \in {"hasElementValueChanged", "init"} => last'.ret = "false"
        /\ (elementLastValue # Undef /\ elementLastValue # fieldValue)
              => (last'.ret = "true" /\ elementLastValue' = fieldValue')]_vars

\* a call on an initialised instance found the value changed and recorded it
C4_Witness ==
    /\ Initialised
    /\ last.op = "hasElementValueChanged"
    /\ last.ret = "true"
    /\ elementLastValue = fieldValue

\* C5: a change, blur or bound keystroke event that arrives after init
\* while the field's value equals the recorded last value does nothing
\* more: it enters no validation cycle, publishes no event, invokes no
\* callback and leaves the instance state as it was.
C5_UnchangedValueShortCircuits ==
    [][(Initialised /\ HandledEvent(last') /\ elementLastValue = fieldValue) =>
        /\ last'.cycles = <<>>
        /\ last'.published = <<>>
        /\ last'.invoked = <<>>
        /\ UNCHANGED <<element, options, metadata, config, elementLastValue, bound>>]_vars

\* v is an integer or a string that reads as one: blanks, an optional sign,
\* digits, and at most a "." followed by zeros
ReadsAsInteger(v) ==
    IF typeof(v) = "number" THEN ~v.nan /\ v.s = 0
    ELSE IF typeof(v) = "string"
    THEN LET t    == TrimRight(TrimLeft(v.chars))
             body == IF t # <<>> /\ Head(t) \in {"-", "+"} THEN Tail(t) ELSE t
             ilen == DigitPrefixLen(body)
             rest == Drop(body, ilen)
         IN  /\ ilen > 0
             /\ \/ rest = <<>>
                \/ Head(rest) = "." /\ \A i \in 2..Len(rest) : rest[i] = "0"
    ELSE FALSE

\* the integer such a value reads as
IntegerRead(v) ==
    IF typeof(v) = "number" THEN v
    ELSE LET t    == TrimLeft(v.chars)
             neg  == Head(t) = "-"
             body == IF Head(t) \in {"-", "+"} THEN Tail(t) ELSE t
         IN  NumRaw(neg, DigitsValue(SubSeq(body, 1, DigitPrefixLen(body)), 0), 0)

\* a value of field f the resolver accepts
ValidFor(f, v) ==
    CASE f \in BooleanOptions -> typeof(v) = "boolean"
      [] f = "decimal" -> v = True \/ (typeof(v) = "string" /\ Len(v.chars) = 1)
      [] f = "decimalPlaces" -> ReadsAsInteger(v)
      [] OTHER -> typeof(v) = "function"

\* the resolved form of an accepted value
Canonical(f, v) ==
    CASE f = "decimal" -> IF v = True THEN Str(<<".">>) ELSE v
      [] f = "decimalPlaces" -> ToNumber(v)
      [] OTHER -> v

\* the resolved form of the defaults
ResolvedDefault(f) ==
    CASE f \in BooleanOptions -> True
      [] f = "decimal" -> Str(<<".">>)
      [] OTHER -> Undef

\* C6: for every field, when the attribute and the caller both give a valid
\* value the resolved value is the attribute's; when the caller alone gives
\* a value and it is valid the resolved value is the caller's; when neither
\* gives a value the resolved value is the default.
C6_Precedence ==
    Initialised =>
        \A f \in Fields :
            LET u == Supplied(options, f)
                m == Supplied(metadata, f)
            IN  /\ (ValidFor(f, m) /\ ValidFor(f, u)) => config[f] = Canonical(f, m)
                /\ (m = Undef /\ ValidFor(f, u)) => config[f] = Canonical(f, u)
                /\ (m = Undef /\ u = Undef) => config[f] = ResolvedDefault(f)

\* C7: each of negative, delegateRemoval and delegateRealtime resolves to
\* the merged value when that is a boolean and to true otherwise.
C7_BooleanOptions ==
    Initialised =>
        \A f \in BooleanOptions :
            config[f] = IF typeof(Merged(f)) = "boolean" THEN Merged(f) ELSE True

\* a non-boolean value was given for a boolean option, which resolved to
\* true
C7_Witness ==
    /\ Initialised
    /\ \E f \in BooleanOptions : typeof(Merged(f)) # "boolean" /\ Merged(f) # Undef
                                  /\ config[f] = True

\* C8: decimal resolves to "." for true, for false and for a string whose
\* length is not 1, and to the string itself when its length is 1; whatever
\* was given, the resolved decimal is a string of length 1.
C8_Decimal ==
    Initialised =>
        LET v == Merged("decimal")
        IN  /\ v \in {True, False} => config.decimal = Str(<<".">>)
            /\ (typeof(v) = "string" /\ Len(v.chars) = 1) => config.decimal = v
            /\ (typeof(v) = "string" /\ Len(v.chars) # 1) => config.decimal = Str(<<".">>)
            /\ typeof(config.decimal) = "string"
            /\ Len(config.decimal.chars) = 1

\* a two-character decimal was given and resolved to "."
C8_Witness ==
    /\ Initialised
    /\ typeof(Merged("decimal")) = "string"
    /\ Len(Merged("decimal").chars) = 2
    /\ config.decimal = Str(<<".">>)

\* C9: a supplied decimalPlaces that reads as an integer (an integer, or a
\* string such as "3") resolves to that integer as a number; any other
\* supplied value (such as "abc" or "2.5") resolves to undefined, the
\* unlimited default.
C9_DecimalPlaces ==
    (Initialised /\ Merged("decimalPlaces") # Undef) =>
        IF ReadsAsInteger(Merged("decimalPlaces"))
        THEN config.decimalPlaces = IntegerRead(Merged("decimalPlaces"))
        ELSE config.decimalPlaces = Undef

\* the string "3" was given and resolved to the number 3
C9_Witness ==
    /\ Initialised
    /\ Merged("decimalPlaces") = Str(<<"3">>)
    /\ config.decimalPlaces = IntNum(3)

\* C10: a decimalPlaces that nobody supplied, or that was supplied as true,
\* resolves to undefined, the unlimited marker, and not to a number.
C10_DecimalPlacesUnlimited ==
    (Initialised /\ Merged("decimalPlaces") \in {Undef, True}) =>
        config.decimalPlaces = Undef

\* v is an integer number
IsInteger(v) == typeof(v) = "number" /\ ~v.nan /\ v.s = 0

\* C11: whatever the caller and the attribute gave, after init the three
\* boolean options are booleans, decimal is a one-character string,
\* decimalPlaces is an integer or undefined (unlimited), and each callback
\* is a function or undefined.
C11_ResolvedTypes ==
    Initialised =>
        /\ \A f \in BooleanOptions : typeof(config[f]) = "boolean"
        /\ typeof(config.decimal) = "string"
        /\ Len(config.decimal.chars) = 1
        /\ (config.decimalPlaces = Undef \/ IsInteger(config.decimalPlaces))
        /\ \A f \in {"callbackInvalidEntry", "callbackValidEntry"} :
              config[f] = Undef \/ typeof(config[f]) = "function"

\* C12: validate() on an initialised instance runs the live check and then
\* the lazy check, each with its notification, and returns the instance.
C12_ValidateRunsLiveThenLazy ==
    (Initialised /\ last.op = "validate") =>
        /\ last.threw = "none"
        /\ last.ret = "this"
        /\ Len(last.cycles) = 2
        /\ Len(last.published) = 2

\* the instance's own state
instanceState == <<element, options, metadata, config, elementLastValue, bound>>

\* C13: validate() on a receiver that has no element (Numeric.validate)
\* publishes nothing, invokes nothing, raises nothing, changes no state and
\* returns its receiver.
C13_UnattachedValidateIsNoOp ==
    [][last'.op = "Numeric.validate" =>
        /\ last'.threw = "none"
        /\ last'.ret = "this"
        /\ last'.cycles = <<>>
        /\ last'.published = <<>>
        /\ last'.invoked = <<>>
        /\ UNCHANGED instanceState
        /\ UNCHANGED fieldValue]_vars

\* Numeric.validate() returned its receiver while an initialised instance
\* had a changed value waiting
C13_Witness ==
    /\ Initialised
    /\ fieldValue # elementLastValue
    /\ last.op = "Numeric.validate"
    /\ last.ret = "this"

\* the type of event e is named after its code and suffixed by the context
\* label exactly when one was given
EventTypeAsClaimed(e, typeContext) ==
    /\ e.code = IntNum(1) <=> e.type.base = Text("scr:numeric.entry_valid")
    /\ e.code = IntNum(0) <=> e.type.base = Text("scr:numeric.entry_invalid")
    /\ e.type.suffix = typeContext

\* C14: the event built for a notification on an initialised instance is named
\* "scr:numeric.entry_valid" exactly when its code is 1 and
\* "scr:numeric.entry_invalid" exactly when its code is 0, with the context
\* label as suffix when one was given and no suffix when none was.
C14_EventTypeName ==
    (Initialised /\ last.op = "buildEventObject") =>
        /\ last.threw = "none"
        /\ Len(last.built) = 1
        /\ EventTypeAsClaimed(last.built[1], last.args[3])

\* C15: after a change, blur or bound keystroke event the recorded last
\* value is the field's current value, and so is the value carried by every
\* event published for it.
C15_LastValueFollowsField ==
    (Initialised /\ HandledEvent(last)) =>
        /\ elementLastValue = fieldValue
        /\ \A i \in DOMAIN last.published : last.published[i].value = fieldValue

\* C16: after init a change or blur event always runs validateLazy; a
\* keydown, keypress or keyup event runs validateLive exactly when the
\* resolved delegateRealtime is true, and with delegateRealtime false it
\* notifies nothing and leaves the instance state unchanged.
C16_BindingByDelegateRealtime ==
    [][(Initialised /\ last'.op \in EventTypes) =>
        /\ last'.op \in LazyEvents => last'.handler = "validateLazy"
        /\ last'.op \in LiveEvents =>
              (last'.handler = "validateLive" <=> config.delegateRealtime = True)
        /\ (last'.op \in LiveEvents /\ config.delegateRealtime = False) =>
              /\ last'.threw = "none"
              /\ last'.cycles = <<>>
              /\ last'.published = <<>>
              /\ last'.invoked = <<>>
              /\ UNCHANGED instanceState]_vars

\* a keystroke on a changed field reached no handler, delegateRealtime being
\* false
C16_Witness ==
    /\ Initialised
    /\ config.delegateRealtime = False
    /\ fieldValue # elementLastValue
    /\ last.op \in LiveEvents
    /\ last.handler = "none"
    /\ last.cycles = <<>>

\* the code and message of event e are those claimed for a call with
\* resultStatus and customMessage
EventMessageAsClaimed(e, resultStatus, customMessage) ==
    /\ e.code = IF resultStatus = True THEN IntNum(1) ELSE IntNum(0)
    /\ e.message =
          IF customMessage # Undef THEN customMessage
          ELSE IF resultStatus = True
               THEN Text("The text field contains valid characters.")
               ELSE Text("An invalid character was entered within the text field.")

\* C17: the event built on an initialised instance carries the custom message when one was given and
\* otherwise the default message of its code, the code being 1 for a passing
\* status and 0 for a failing one.
C17_EventMessage ==
    (Initialised /\ last.op = "buildEventObject") =>
        /\ last.threw = "none"
        /\ Len(last.built) = 1
        /\ EventMessageAsClaimed(last.built[1], last.args[1], last.args[2])

\* C18: every validation cycle of an operation publishes the custom event
\* exactly once, callbacks configured or not, and a callback is invoked only
\* after the event of its cycle was published.
C18_PublishedOncePerCycle ==
    Initialised =>
        /\ Len(last.published) = Len(last.cycles)
        /\ \A i \in DOMAIN last.invoked : last.invoked[i].after >= 1

\* the callback that matches a result status
MatchingCallback(resultStatus) ==
    IF resultStatus THEN "callbackValidEntry" ELSE "callbackInvalidEntry"

\* C19: when the callback matching the outcome of a handler's validation
\* cycle is configured, the handler returns what that callback returned.
C19_ResultIsCallbackReturn ==
    (/\ Initialised
     /\ HandledEvent(last)
     /\ Len(last.cycles) = 1
     /\ typeof(config[MatchingCallback(last.cycles[1])]) = "function")
    => /\ last.threw = "none"
       /\ Len(last.invoked) = 1
       /\ last.ret = last.invoked[1].returned

\* C20: once init has built the configuration no operation changes it.
C20_ConfigurationImmutable == [][Initialised => config' = config]_vars

\* validate() ran on an instance whose configuration is not the default one
C20_Witness ==
    /\ Initialised
    /\ config # mergeConfiguration(defaults, Undef, Undef)
    /\ last.op = "validate"

\* C21: configuration resolution leaves the shared defaults object and the
\* caller's options object as they were, and the configuration of every
\* instance, whenever and in whatever order it was attached, is the one the
\* resolver gives for the defaults, those options and the attribute of the
\* instance's own element.
C21_ResolutionLeavesSharedObjects ==
    [][Len(instances') > Len(instances) =>
        /\ heap'[DefaultsRef] = heap[DefaultsRef]
        /\ heap'[OptionsRef] = heap[OptionsRef]
        /\ \A i \in DOMAIN instances' :
              heap'[instances'[i].config] =
                  mergeConfiguration(heap[DefaultsRef], heap[OptionsRef],
                                     heap[DataRef(instances'[i].element.n)])]_vars

\* two elements were attached with one options object, the later element of
\* the page first, and their configurations differ
C21_Witness ==
    /\ Len(instances) >= 2
    /\ instances[1].element.n > instances[2].element.n
    /\ heap[OptionsRef] # Undef
    /\ heap[instances[1].config] # heap[instances[2].config]
    /\ heap[instances[1].config] # heap[DefaultsRef]

====
